---- MODULE Spec2Model ----
(***************************************************************************)
(* Model of oh-updater (src/src/main.rs): one invocation of                *)
(* BuildFilePusher::run per process, stepping at every interaction with   *)
(* the outside world (record file, build tree, terminal, hdc subprocess).  *)
(***************************************************************************)
EXTENDS Integers, Sequences, FiniteSets, TLC

(* ---------------------------------------------------------------------- *)
(* Bounds and fixed inputs                                                 *)
(* ---------------------------------------------------------------------- *)

\* Modification times are ticks after the Unix epoch, 1..MaxTime.
MaxTime == 2

\* Sub-second resolution of a timestamp: ticks per second.
TicksPerSec == 2

\* DateTime::<Utc>::MIN_UTC, below every file time and below the epoch.
MIN_UTC == -1

\* DateTime::<Utc>::default(), the Unix epoch (unwrap_or_default).
DateTimeDefault == 0

FileTimes == 1..MaxTime

\* Invocations that may exist; connect keys of the devices.
Procs == {1, 2}
ConnectKeys == {"d1", "d2"}

\* Regular files that may exist under the scanned subtrees of the build dir.
BuildFiles == { <<"out", "a.so">>, <<"out", "b.so">>, <<"base", "c.so">> }

\* Regular files of the package mirror, relative to it, in walk order:
\* a.so is there once, b.so nowhere, c.so twice.
PackageMirror == << <<"system", "lib", "a.so">>,
                    <<"system", "lib", "c.so">>,
                    <<"vendor", "lib", "c.so">> >>

\* Lines the terminal may deliver to read_line (empty: end of input).
InputLines == { <<>>, <<"\n">>, <<"y", "\n">>, <<"Y", "\n">>, <<" ", "y", " ", "\n">>,
                <<"n", "\n">>, <<"y", "e", "s", "\n">> }

\* Outcomes of Command::status(): exit 0, exit non-zero, spawn error.
AgentOutcomes == {"ok", "nonzero", "spawnfail"}

(* ---------------------------------------------------------------------- *)
(* Pure helpers                                                            *)
(* ---------------------------------------------------------------------- *)

None == <<>>
Some(x) == <<x>>
IsSome(o) == Len(o) = 1
Unwrap(o) == o[1]

Max(S) == CHOOSE x \in S : \A y \in S : y <= x

\* DateTime::to_rfc3339: whole seconds and the fraction, printed losslessly.
to_rfc3339_truncated(t) == << t \div TicksPerSec, 0 >>
to_rfc3339(t) == << t \div TicksPerSec, t % TicksPerSec >>

\* DateTime::parse_from_rfc3339(..).into()
parse_from_rfc3339(s) == s[1] * TicksPerSec + s[2]

\* Path::file_name
file_name(path) == path[Len(path)]

\* Index of the first record of connect_key in a Vec<Record>, 0 if none.
RECURSIVE FindFrom(_, _, _)
FindFrom(vec, connect_key, i) ==
    IF i > Len(vec) THEN 0
    ELSE IF vec[i].connectkey = connect_key THEN i
    ELSE FindFrom(vec, connect_key, i + 1)

record_entry_exists(records, connect_key) ==
    IsSome(records) /\ \E i \in 1..Len(Unwrap(records)) :
                           Unwrap(records)[i].connectkey = connect_key

record_entry(records, connect_key) ==
    IF IsSome(records) /\ FindFrom(Unwrap(records), connect_key, 1) > 0
    THEN Some(Unwrap(records)[FindFrom(Unwrap(records), connect_key, 1)])
    ELSE None

\* run, lines 184-192
LatestModifiedDate(records, connect_key) ==
    IF IsSome(record_entry(records, connect_key))
    THEN parse_from_rfc3339(Unwrap(record_entry(records, connect_key)).last_modified_date)
    ELSE MIN_UTC

\* run, lines 215-219: the filter of the change detector
IsNewUnfiltered(force_update, file_date, latest) == TRUE
IsNewAlwaysStrict(force_update, file_date, latest) == file_date > latest
IsNew(force_update, file_date, latest) ==
    IF force_update THEN file_date >= latest ELSE file_date > latest

\* run, line 241
NewModifiedDate(dates) == IF dates = {} THEN DateTimeDefault ELSE Max(dates)

\* find_device_path: every mirror file of that name, collected into ONE PathBuf
\* (PathBuf: FromIterator pushes each relative path onto the previous ones).
RECURSIVE CollectFrom(_, _)
CollectFrom(name, i) ==
    IF i > Len(PackageMirror) THEN <<>>
    ELSE IF file_name(PackageMirror[i]) = name
         THEN PackageMirror[i] \o CollectFrom(name, i + 1)
         ELSE CollectFrom(name, i + 1)

find_device_path(name) == CollectFrom(name, 1)

\* str::trim
IsSpace(c) == c \in {" ", "\n", "\t", "\r"}
RECURSIVE TrimStart(_)
TrimStart(s) == IF s # <<>> /\ IsSpace(Head(s)) THEN TrimStart(Tail(s)) ELSE s
RECURSIVE TrimEnd(_)
TrimEnd(s) == IF s # <<>> /\ IsSpace(s[Len(s)]) THEN TrimEnd(SubSeq(s, 1, Len(s) - 1)) ELSE s
trim(s) == TrimEnd(TrimStart(s))

\* decide_send_by_user, lines 395-397
decide_send_by_user_untrimmed(line) == line \in { <<"y">>, <<"Y">>, <<>> }
decide_send_by_user(line) == trim(line) \in { <<"y">>, <<"Y">>, <<>> }

\* run, line 265: is the plan shown and a decision asked for?
AsksDecisionIgnoringRecord(build_file_map, records, connect_key) ==
    DOMAIN build_file_map # {}
AsksDecision(build_file_map, records, connect_key) ==
    DOMAIN build_file_map # {} /\ record_entry_exists(records, connect_key)

\* run, line 310: is the record store modified and written?
ModifiesRecordsAlways(snd, records, connect_key) == TRUE
ModifiesRecords(snd, records, connect_key) ==
    snd \/ ~record_entry_exists(records, connect_key)

\* run, lines 282-305: where run goes after an hdc command returned outcome,
\* rest being the plan entries still to send. Only an Err of status() (hdc
\* could not be spawned) panics.
AfterCallNoPanic(outcome, rest) == IF rest = {} THEN "update" ELSE "send"
AfterCallSingleTransfer(outcome, rest) ==
    IF outcome = "spawnfail" THEN "aborted" ELSE "update"
AfterCall(outcome, rest) ==
    IF outcome = "spawnfail" THEN "aborted"
    ELSE IF rest = {} THEN "update"
    ELSE "send"

\* run, lines 311-329: the store with the device's record set to date
UpsertAlwaysAppend(records, connect_key, date) ==
    LET r == [connectkey |-> connect_key, last_modified_date |-> date]
    IN IF IsSome(records) THEN Some(Append(Unwrap(records), r)) ELSE Some(<<r>>)
UpsertFreshStore(records, connect_key, date) ==
    Some(<< [connectkey |-> connect_key, last_modified_date |-> date] >>)
Upsert(records, connect_key, date) ==
    IF record_entry_exists(records, connect_key)
    THEN Some([Unwrap(records) EXCEPT
                 ![FindFrom(Unwrap(records), connect_key, 1)].last_modified_date = date])
    ELSE LET r == [connectkey |-> connect_key, last_modified_date |-> date]
         IN IF IsSome(records) THEN Some(Append(Unwrap(records), r)) ELSE Some(<<r>>)

(* ---------------------------------------------------------------------- *)
(* State                                                                   *)
(* ---------------------------------------------------------------------- *)

VARIABLES
    recordFile,           \* build_record.json: None (absent) or Some(records)
    tree,                 \* build tree: existing build file -> modification time
    prevRun,              \* history: the run that just ended, None once the tree changed
                          \*          or another run started
    pc,                   \* per invocation: position in run
    args,                 \* BuilderArg: connect_key, push, force_update
    records,              \* BuildFilePusher.records: Option<Vec<Record>>
    latest_modified_date, \* run local
    new_files,            \* run local
    new_modified_date,    \* run local
    build_file_map,       \* run local: build file -> device path
    send,                 \* run local
    loaded,               \* history: recordFile as read_records found it
    prompts,              \* history: number of confirmation prompts issued
    displayed,            \* history: plan entries printed
    agentLog,             \* history: hdc invocations of this run and their outcomes
    flushes,              \* history: number of writes of the record file
    follows,              \* history: how this run follows a run of the same device with
                          \*          no tree change between: "fresh" (it does not),
                          \*          "settled", "unsettled" (see Exit)
    input,                \* decide_send_by_user: the line read, Some(line) until the
                          \*          invocation's next step, None otherwise
    loads,                \* history: number of reads of the record file
    mutations             \* history: number of modifications of the in-memory store

vars == << recordFile, tree, prevRun, pc, args, records, latest_modified_date,
           new_files, new_modified_date, build_file_map, send, loaded, prompts,
           displayed, agentLog, flushes, follows, input, loads, mutations >>

locals == << args, records, latest_modified_date, new_files, new_modified_date,
             build_file_map, send, loaded, prompts, displayed, agentLog, flushes,
             follows, input, loads, mutations >>

NoArgs == [connect_key |-> "", push |-> FALSE, force_update |-> FALSE]
EmptyMap == [f \in {} |-> <<>>]

\* No hdc invocation yet: remount not run, no file sent, no command run.
NoCalls == [remount |-> "none", sends |-> EmptyMap, calls |-> 0]

Init ==
    /\ recordFile = None
    /\ tree = EmptyMap
    /\ prevRun = None
    /\ pc = [p \in Procs |-> "idle"]
    /\ args = [p \in Procs |-> NoArgs]
    /\ records = [p \in Procs |-> None]
    /\ latest_modified_date = [p \in Procs |-> MIN_UTC]
    /\ new_files = [p \in Procs |-> {}]
    /\ new_modified_date = [p \in Procs |-> DateTimeDefault]
    /\ build_file_map = [p \in Procs |-> EmptyMap]
    /\ send = [p \in Procs |-> FALSE]
    /\ loaded = [p \in Procs |-> None]
    /\ prompts = [p \in Procs |-> 0]
    /\ displayed = [p \in Procs |-> {}]
    /\ agentLog = [p \in Procs |-> NoCalls]
    /\ flushes = [p \in Procs |-> 0]
    /\ follows = [p \in Procs |-> "fresh"]
    /\ input = [p \in Procs |-> None]
    /\ loads = [p \in Procs |-> 0]
    /\ mutations = [p \in Procs |-> 0]

(* ---------------------------------------------------------------------- *)
(* The build tree changes between invocations                              *)
(* ---------------------------------------------------------------------- *)

AllIdle == \A p \in Procs : pc[p] = "idle"

\* A build writes (or touches) a file.
TouchFile(f, t) ==
    /\ AllIdle
    /\ IF f \in DOMAIN tree THEN tree[f] # t ELSE TRUE
    /\ tree' = [g \in DOMAIN tree \cup {f} |-> IF g = f THEN t ELSE tree[g]]
    /\ prevRun' = None
    /\ UNCHANGED << recordFile, pc, locals >>

\* A clean removes a file.
RemoveFile(f) ==
    /\ AllIdle
    /\ f \in DOMAIN tree
    /\ tree' = [g \in DOMAIN tree \ {f} |-> tree[g]]
    /\ prevRun' = None
    /\ UNCHANGED << recordFile, pc, locals >>

(* ---------------------------------------------------------------------- *)
(* One invocation                                                          *)
(* ---------------------------------------------------------------------- *)

\* main, lines 62-87: arguments parsed, BuildFilePusher constructed.
Start(p, connect_key, push, force_update) ==
    /\ pc[p] = "idle"
    /\ pc' = [pc EXCEPT ![p] = "read"]
    /\ args' = [args EXCEPT ![p] = [connect_key |-> connect_key, push |-> push,
                                    force_update |-> force_update]]
    /\ follows' = [follows EXCEPT ![p] =
                      IF IsSome(prevRun) /\ Unwrap(prevRun).connect_key = connect_key
                      THEN IF Unwrap(prevRun).settled THEN "settled" ELSE "unsettled"
                      ELSE "fresh"]
    /\ prevRun' = None
    /\ UNCHANGED << recordFile, tree, records, latest_modified_date, new_files,
                    new_modified_date, build_file_map, send, loaded, prompts, displayed,
                    agentLog, flushes, input, loads, mutations >>

\* read_records (139-155) and the watermark of the device (184-192).
ReadRecords(p) ==
    /\ pc[p] = "read"
    /\ records' = [records EXCEPT ![p] = recordFile]
    /\ loaded' = [loaded EXCEPT ![p] = recordFile]
    /\ latest_modified_date' =
           [latest_modified_date EXCEPT ![p] = LatestModifiedDate(recordFile, args[p].connect_key)]
    /\ loads' = [loads EXCEPT ![p] = @ + 1]
    /\ pc' = [pc EXCEPT ![p] = "scan"]
    /\ UNCHANGED << recordFile, tree, prevRun, args, new_files, new_modified_date,
                    build_file_map, send, prompts, displayed, agentLog, flushes, follows,
                    input, mutations >>

\* run, lines 195-261: scan, filter, newest date, map to device paths.
Scan(p) ==
    /\ pc[p] = "scan"
    /\ LET selected == { f \in DOMAIN tree :
                           IsNew(args[p].force_update, tree[f], latest_modified_date[p]) }
       IN /\ new_files' = [new_files EXCEPT ![p] = selected]
          /\ new_modified_date' =
                 [new_modified_date EXCEPT ![p] = NewModifiedDate({ tree[f] : f \in selected })]
          /\ build_file_map' =
                 [build_file_map EXCEPT ![p] =
                     [f \in selected |-> find_device_path(file_name(f))]]
    /\ pc' = [pc EXCEPT ![p] = "decide"]
    /\ UNCHANGED << recordFile, tree, prevRun, args, records, latest_modified_date, send,
                    loaded, prompts, displayed, agentLog, flushes, follows, input, loads,
                    mutations >>

\* run, lines 264-270: show the plan and decide whether to send.
Decide(p) ==
    /\ pc[p] = "decide"
    /\ IF AsksDecision(build_file_map[p], records[p], args[p].connect_key)
       THEN /\ displayed' = [displayed EXCEPT ![p] =
                               { <<f, build_file_map[p][f]>> : f \in DOMAIN build_file_map[p] }]
            /\ IF args[p].push
               THEN /\ send' = [send EXCEPT ![p] = TRUE]
                    /\ UNCHANGED << prompts, input >>
               ELSE \E line \in InputLines :
                       /\ send' = [send EXCEPT ![p] = decide_send_by_user(line)]
                       /\ prompts' = [prompts EXCEPT ![p] = @ + 1]
                       /\ input' = [input EXCEPT ![p] = Some(line)]
            /\ pc' = [pc EXCEPT ![p] = IF send'[p] THEN "remount" ELSE "update"]
       ELSE /\ pc' = [pc EXCEPT ![p] = "update"]
            /\ UNCHANGED << send, prompts, displayed, input >>
    /\ UNCHANGED << recordFile, tree, prevRun, args, records, latest_modified_date,
                    new_files, new_modified_date, build_file_map, loaded, agentLog, flushes,
                    follows, loads, mutations >>

\* run, lines 272-283: hdc shell mount -o remount,rw /
\* Only a spawn error makes expect() panic; the exit status is dropped.
Remount(p) ==
    /\ pc[p] = "remount"
    /\ \E outcome \in AgentOutcomes :
          /\ agentLog' = [agentLog EXCEPT ![p].remount = outcome, ![p].calls = @ + 1]
          /\ pc' = [pc EXCEPT ![p] = AfterCall(outcome, DOMAIN build_file_map[p])]
    /\ input' = [input EXCEPT ![p] = None]
    /\ UNCHANGED << recordFile, tree, prevRun, args, records, latest_modified_date,
                    new_files, new_modified_date, build_file_map, send, loaded, prompts,
                    displayed, flushes, follows, loads, mutations >>

\* Plan entries the for_each has not reached yet.
Remaining(p) == DOMAIN build_file_map[p] \ DOMAIN agentLog[p].sends

\* run, lines 285-305: hdc file send, one entry of the map per step, in the
\* map's iteration order (any). Only a spawn error panics.
SendFile(p) ==
    /\ pc[p] = "send"
    /\ \E f \in Remaining(p), outcome \in AgentOutcomes :
          /\ agentLog' = [agentLog EXCEPT ![p].sends =
                 [g \in DOMAIN @ \cup {f} |->
                     IF g = f THEN [dst |-> build_file_map[p][f], status |-> outcome]
                     ELSE @[g]],
                 ![p].calls = @ + 1]
          /\ pc' = [pc EXCEPT ![p] = AfterCall(outcome, Remaining(p) \ {f})]
    /\ UNCHANGED << recordFile, tree, prevRun, args, records, latest_modified_date,
                    new_files, new_modified_date, build_file_map, send, loaded, prompts,
                    displayed, flushes, follows, input, loads, mutations >>

\* run, lines 309-342: modify the store and rewrite the record file.
UpdateRecords(p) ==
    /\ pc[p] = "update"
    /\ IF ModifiesRecords(send[p], records[p], args[p].connect_key)
       THEN /\ records' = [records EXCEPT ![p] =
                   Upsert(@, args[p].connect_key, to_rfc3339(new_modified_date[p]))]
            /\ recordFile' = records'[p]
            /\ mutations' = [mutations EXCEPT ![p] = @ + 1]
            /\ flushes' = [flushes EXCEPT ![p] = @ + 1]
       ELSE UNCHANGED << records, recordFile, mutations, flushes >>
    /\ input' = [input EXCEPT ![p] = None]
    /\ pc' = [pc EXCEPT ![p] = "done"]
    /\ UNCHANGED << tree, prevRun, args, latest_modified_date, new_files,
                    new_modified_date, build_file_map, send, loaded, prompts, displayed,
                    agentLog, follows, loads >>

\* The process ends: run returned (main, line 87) or a panic unwound.
Exit(p) ==
    /\ pc[p] \in {"done", "aborted"}
    /\ prevRun' = IF pc[p] = "done"
                  THEN Some([connect_key |-> args[p].connect_key,
                             settled |-> flushes[p] > 0 \/ new_files[p] = {}])
                  ELSE None
    /\ pc' = [pc EXCEPT ![p] = "idle"]
    /\ args' = [args EXCEPT ![p] = NoArgs]
    /\ records' = [records EXCEPT ![p] = None]
    /\ latest_modified_date' = [latest_modified_date EXCEPT ![p] = MIN_UTC]
    /\ new_files' = [new_files EXCEPT ![p] = {}]
    /\ new_modified_date' = [new_modified_date EXCEPT ![p] = DateTimeDefault]
    /\ build_file_map' = [build_file_map EXCEPT ![p] = EmptyMap]
    /\ send' = [send EXCEPT ![p] = FALSE]
    /\ loaded' = [loaded EXCEPT ![p] = None]
    /\ prompts' = [prompts EXCEPT ![p] = 0]
    /\ displayed' = [displayed EXCEPT ![p] = {}]
    /\ agentLog' = [agentLog EXCEPT ![p] = NoCalls]
    /\ flushes' = [flushes EXCEPT ![p] = 0]
    /\ follows' = [follows EXCEPT ![p] = "fresh"]
    /\ input' = [input EXCEPT ![p] = None]
    /\ loads' = [loads EXCEPT ![p] = 0]
    /\ mutations' = [mutations EXCEPT ![p] = 0]
    /\ UNCHANGED << recordFile, tree >>

(* ---------------------------------------------------------------------- *)
(* Specification: invocations one after another                            *)
(* ---------------------------------------------------------------------- *)

SeqProcs == {1}

Next ==
    \/ \E f \in BuildFiles, t \in FileTimes : TouchFile(f, t)
    \/ \E f \in BuildFiles : RemoveFile(f)
    \/ \E p \in SeqProcs, k \in ConnectKeys, push \in BOOLEAN, force \in BOOLEAN :
          Start(p, k, push, force)
    \/ \E p \in SeqProcs : ReadRecords(p)
    \/ \E p \in SeqProcs : Scan(p)
    \/ \E p \in SeqProcs : Decide(p)
    \/ \E p \in SeqProcs : Remount(p)
    \/ \E p \in SeqProcs : SendFile(p)
    \/ \E p \in SeqProcs : UpdateRecords(p)
    \/ \E p \in SeqProcs : Exit(p)

Spec == Init /\ [][Next]_vars

(* ---------------------------------------------------------------------- *)
(* Specification: invocations one after another, no history across runs    *)
(* ---------------------------------------------------------------------- *)

\* The process ends as in Exit; what the run was is not remembered.
ExitUntracked(p) ==
    /\ pc[p] \in {"done", "aborted"}
    /\ prevRun' = None
    /\ pc' = [pc EXCEPT ![p] = "idle"]
    /\ args' = [args EXCEPT ![p] = NoArgs]
    /\ records' = [records EXCEPT ![p] = None]
    /\ latest_modified_date' = [latest_modified_date EXCEPT ![p] = MIN_UTC]
    /\ new_files' = [new_files EXCEPT ![p] = {}]
    /\ new_modified_date' = [new_modified_date EXCEPT ![p] = DateTimeDefault]
    /\ build_file_map' = [build_file_map EXCEPT ![p] = EmptyMap]
    /\ send' = [send EXCEPT ![p] = FALSE]
    /\ loaded' = [loaded EXCEPT ![p] = None]
    /\ prompts' = [prompts EXCEPT ![p] = 0]
    /\ displayed' = [displayed EXCEPT ![p] = {}]
    /\ agentLog' = [agentLog EXCEPT ![p] = NoCalls]
    /\ flushes' = [flushes EXCEPT ![p] = 0]
    /\ follows' = [follows EXCEPT ![p] = "fresh"]
    /\ input' = [input EXCEPT ![p] = None]
    /\ loads' = [loads EXCEPT ![p] = 0]
    /\ mutations' = [mutations EXCEPT ![p] = 0]
    /\ UNCHANGED << recordFile, tree >>

NextRuns ==
    \/ \E f \in BuildFiles, t \in FileTimes : TouchFile(f, t)
    \/ \E f \in BuildFiles : RemoveFile(f)
    \/ \E p \in SeqProcs, k \in ConnectKeys, push \in BOOLEAN, force \in BOOLEAN :
          Start(p, k, push, force)
    \/ \E p \in SeqProcs : ReadRecords(p)
    \/ \E p \in SeqProcs : Scan(p)
    \/ \E p \in SeqProcs : Decide(p)
    \/ \E p \in SeqProcs : Remount(p)
    \/ \E p \in SeqProcs : SendFile(p)
    \/ \E p \in SeqProcs : UpdateRecords(p)
    \/ \E p \in SeqProcs : ExitUntracked(p)

SpecRuns == Init /\ [][NextRuns]_vars

(* ---------------------------------------------------------------------- *)
(* Specification: two invocations at once on one configuration directory   *)
(* ---------------------------------------------------------------------- *)

\* The build file that changes while invocations run.
ConcFiles == { <<"out", "a.so">> }

\* A build writes a file, whatever the invocations are doing.
BuildWritesFile(f, t) ==
    /\ IF f \in DOMAIN tree THEN tree[f] # t ELSE TRUE
    /\ tree' = [g \in DOMAIN tree \cup {f} |-> IF g = f THEN t ELSE tree[g]]
    /\ prevRun' = None
    /\ UNCHANGED << recordFile, pc, locals >>

\* Record files the invocations may find: none, or the baseline that a first
\* run for d1 left over a tree whose newest file was written at tick 1.
ConcStores ==
    { None, Some(<< [connectkey |-> "d1", last_modified_date |-> to_rfc3339(1)] >>) }

InitConc ==
    /\ recordFile \in ConcStores
    /\ tree = EmptyMap
    /\ prevRun = None
    /\ pc = [p \in Procs |-> "idle"]
    /\ args = [p \in Procs |-> NoArgs]
    /\ records = [p \in Procs |-> None]
    /\ latest_modified_date = [p \in Procs |-> MIN_UTC]
    /\ new_files = [p \in Procs |-> {}]
    /\ new_modified_date = [p \in Procs |-> DateTimeDefault]
    /\ build_file_map = [p \in Procs |-> EmptyMap]
    /\ send = [p \in Procs |-> FALSE]
    /\ loaded = [p \in Procs |-> None]
    /\ prompts = [p \in Procs |-> 0]
    /\ displayed = [p \in Procs |-> {}]
    /\ agentLog = [p \in Procs |-> NoCalls]
    /\ flushes = [p \in Procs |-> 0]
    /\ follows = [p \in Procs |-> "fresh"]
    /\ input = [p \in Procs |-> None]
    /\ loads = [p \in Procs |-> 0]
    /\ mutations = [p \in Procs |-> 0]

\* Each of the two processes is one invocation: it runs once and stays ended.
NextConc ==
    \/ \E f \in ConcFiles, t \in FileTimes : BuildWritesFile(f, t)
    \/ \E p \in Procs, k \in ConnectKeys, push \in BOOLEAN, force \in BOOLEAN :
          Start(p, k, push, force)
    \/ \E p \in Procs : ReadRecords(p)
    \/ \E p \in Procs : Scan(p)
    \/ \E p \in Procs : Decide(p)
    \/ \E p \in Procs : Remount(p)
    \/ \E p \in Procs : SendFile(p)
    \/ \E p \in Procs : UpdateRecords(p)

SpecConc == InitConc /\ [][NextConc]_vars

(* ---------------------------------------------------------------------- *)
(* Vocabulary of the properties                                            *)
(* ---------------------------------------------------------------------- *)

Key(p) == args[p].connect_key

\* read_records has run in this invocation.
AfterLoad(p) == pc[p] \notin {"idle", "read"}

\* The scan, the filter and the mapping have run in this invocation.
AfterScan(p) == pc[p] \notin {"idle", "read", "scan"}

\* The device had a record in the store this invocation loaded.
HadRecord(p) == record_entry_exists(loaded[p], Key(p))

\* The watermark a record file holds for a device (MIN_UTC: none).
Watermark(file, connect_key) == LatestModifiedDate(file, connect_key)

\* hdc has been invoked in this invocation.
AgentInvoked(p) == agentLog[p] # NoCalls

\* Some hdc invocation of this run returned a non-zero exit status.
NonZeroSeen(p) ==
    \/ agentLog[p].remount = "nonzero"
    \/ \E f \in DOMAIN agentLog[p].sends : agentLog[p].sends[f].status = "nonzero"

\* The mirror files that have this base name.
Matches(name) ==
    { PackageMirror[i] : i \in { j \in 1..Len(PackageMirror) : file_name(PackageMirror[j]) = name } }

(* ---------------------------------------------------------------------- *)
(* C1                                                                      *)
(* ---------------------------------------------------------------------- *)

\* C1: a run on a device that has no record in the loaded store never prompts
\* and never invokes hdc, whatever it selected and whatever the flags, and it
\* ends with a record of the device written to the record file.
C1_NoSendWithoutPriorRecord ==
    \A p \in Procs :
        AfterLoad(p) /\ ~HadRecord(p) =>
            /\ prompts[p] = 0
            /\ ~AgentInvoked(p)
            /\ ~send[p]
            /\ pc[p] # "aborted"
            /\ pc[p] = "done" =>
                  /\ flushes[p] = 1
                  /\ record_entry_exists(recordFile, Key(p))
                  /\ Unwrap(record_entry(recordFile, Key(p))).last_modified_date
                        = to_rfc3339(new_modified_date[p])

\* A first run with the push flag that selected all three files has ended.
C1_Witness ==
    \E p \in Procs :
        /\ pc[p] = "done" /\ ~HadRecord(p) /\ args[p].push
        /\ new_files[p] = BuildFiles
        /\ record_entry_exists(recordFile, Key(p))

(* ---------------------------------------------------------------------- *)
(* C2                                                                      *)
(* ---------------------------------------------------------------------- *)

\* C2: once hdc has returned a non-zero exit status for the remount or for a
\* transfer, the run has terminated with an error (so no later transfer is
\* invoked) and the record file is what the run loaded.
C2_NonZeroExitIsFatal ==
    \A p \in Procs :
        NonZeroSeen(p) => pc[p] = "aborted" /\ recordFile = loaded[p]

(* ---------------------------------------------------------------------- *)
(* C3                                                                      *)
(* ---------------------------------------------------------------------- *)

\* C3: a watermark written by a run that is not a first-run baseline was
\* written after the remount and the transfer of every selected file had
\* completed without error.
C3_WatermarkImpliesAllSent ==
    \A p \in Procs :
        pc[p] = "done" /\ flushes[p] > 0 /\ HadRecord(p) =>
            /\ agentLog[p].remount = "ok"
            /\ \A f \in new_files[p] :
                  /\ f \in DOMAIN agentLog[p].sends
                  /\ agentLog[p].sends[f].status = "ok"

(* ---------------------------------------------------------------------- *)
(* C4                                                                      *)
(* ---------------------------------------------------------------------- *)

\* C4: the record file is written in a run only if the run sent or the device
\* had no prior record; in every other run the in-memory store and the record
\* file stay what was loaded.
C4_WriteOnlyIfSentOrNoRecord ==
    \A p \in Procs :
        AfterLoad(p) =>
            /\ flushes[p] > 0 => (send[p] /\ AgentInvoked(p)) \/ ~HadRecord(p)
            /\ HadRecord(p) /\ ~send[p] =>
                  /\ flushes[p] = 0
                  /\ records[p] = loaded[p]
                  /\ recordFile = loaded[p]

\* A run with a prior record whose plan was shown and declined has ended.
C4_Witness ==
    \E p \in Procs :
        /\ pc[p] = "done" /\ HadRecord(p) /\ ~send[p]
        /\ prompts[p] = 1 /\ new_files[p] # {}
        /\ recordFile = loaded[p]

(* ---------------------------------------------------------------------- *)
(* C5                                                                      *)
(* ---------------------------------------------------------------------- *)

\* C5 as stated: a run that follows a completed run of the same device with no
\* change of the build tree between them, whatever the flags and the answers,
\* selects no file and leaves the device's watermark as it was.
C5_IdempotentAnyFlagAnyAnswer ==
    \A p \in Procs :
        AfterScan(p) /\ follows[p] # "fresh" =>
            /\ new_files[p] = {}
            /\ Watermark(recordFile, Key(p)) = latest_modified_date[p]

\* C5 amended: when the first run ended having written the device's record or
\* having selected no file, the run that follows it with no change of the build
\* tree leaves the device's watermark as it was; it selects no file when it is
\* not in force mode, and in force mode exactly the files whose modification
\* time equals the watermark.
C5_IdempotentWhenSettled ==
    \A p \in Procs :
        AfterScan(p) /\ follows[p] = "settled" =>
            /\ new_files[p] = IF args[p].force_update
                              THEN { f \in DOMAIN tree : tree[f] = latest_modified_date[p] }
                              ELSE {}
            /\ Watermark(recordFile, Key(p)) = latest_modified_date[p]

\* A second run in normal mode has ended, after a first run that left a
\* watermark with a sub-second part, over a tree that holds files.
C5_Witness ==
    \E p \in Procs :
        /\ pc[p] = "done" /\ follows[p] = "settled" /\ ~args[p].force_update
        /\ DOMAIN tree # {}
        /\ latest_modified_date[p] % TicksPerSec # 0
        /\ new_files[p] = {}

(* ---------------------------------------------------------------------- *)
(* C6                                                                      *)
(* ---------------------------------------------------------------------- *)

\* C6: with invocations one after another, the watermark the record file holds
\* for a device is never lower than the one the running invocation loaded.
C6_MonotonicWatermark ==
    \A p \in Procs :
        AfterLoad(p) =>
            \A k \in ConnectKeys : Watermark(recordFile, k) >= Watermark(loaded[p], k)

\* A run with a prior record has sent and raised the watermark.
C6_Witness ==
    \E p \in Procs :
        /\ pc[p] = "done" /\ HadRecord(p) /\ flushes[p] = 1
        /\ Watermark(recordFile, Key(p)) > Watermark(loaded[p], Key(p))

(* ---------------------------------------------------------------------- *)
(* C7                                                                      *)
(* ---------------------------------------------------------------------- *)

\* C7: after a first run for a device, the device has a record whose watermark
\* is the newest modification time among the scanned files; over an empty scan
\* the device has no record, or the minimum timestamp.
C7_FirstRunBootstrap ==
    \A p \in Procs :
        pc[p] = "done" /\ ~HadRecord(p) =>
            IF DOMAIN tree = {}
            THEN Watermark(recordFile, Key(p)) = MIN_UTC
            ELSE /\ record_entry_exists(recordFile, Key(p))
                 /\ Watermark(recordFile, Key(p)) = Max({ tree[f] : f \in DOMAIN tree })

(* ---------------------------------------------------------------------- *)
(* C8                                                                      *)
(* ---------------------------------------------------------------------- *)

\* C8: a run that selected no file writes nothing: the in-memory store and the
\* record file are what was loaded, with or without a prior record.
C8_NoWriteOnEmptySelection ==
    \A p \in Procs :
        pc[p] = "done" /\ new_files[p] = {} =>
            /\ flushes[p] = 0
            /\ records[p] = loaded[p]
            /\ recordFile = loaded[p]

(* ---------------------------------------------------------------------- *)
(* C9                                                                      *)
(* ---------------------------------------------------------------------- *)

\* C9: every plan entry maps its file to a mirror file of the same base name,
\* and a selected file with no mirror file of its name is not in the plan, is
\* not displayed and is not passed to hdc.
C9_PlanEntriesResolve ==
    \A p \in Procs :
        /\ \A f \in DOMAIN build_file_map[p] :
              build_file_map[p][f] \in Matches(file_name(f))
        /\ \A f \in new_files[p] :
              Matches(file_name(f)) = {} =>
                  /\ f \notin DOMAIN build_file_map[p]
                  /\ \A e \in displayed[p] : e[1] # f
                  /\ f \notin DOMAIN agentLog[p].sends

(* ---------------------------------------------------------------------- *)
(* C10                                                                     *)
(* ---------------------------------------------------------------------- *)

\* C10: a selected file whose base name has several mirror files makes the run
\* abort or is left out of the plan, and is never sent to a path that is not
\* one of those mirror files.
C10_AmbiguityIsAnError ==
    \A p \in Procs :
        \A f \in new_files[p] :
            Cardinality(Matches(file_name(f))) > 1 =>
                /\ pc[p] = "aborted" \/ f \notin DOMAIN build_file_map[p]
                /\ f \in DOMAIN agentLog[p].sends =>
                      agentLog[p].sends[f].dst \in Matches(file_name(f))

(* ---------------------------------------------------------------------- *)
(* C11                                                                     *)
(* ---------------------------------------------------------------------- *)

\* C11: the run selects exactly the files of the tree modified after the
\* watermark of the device in the loaded store (MIN_UTC without a record), and
\* in force mode also those modified exactly at the watermark.
C11_StrictVsForceBoundary ==
    \A p \in Procs :
        AfterScan(p) =>
            LET W == Watermark(loaded[p], Key(p))
            IN \A f \in BuildFiles :
                  f \in new_files[p] <=>
                      /\ f \in DOMAIN tree
                      /\ \/ tree[f] > W
                         \/ args[p].force_update /\ tree[f] = W

\* A force run has selected a file modified exactly at the watermark and left
\* out an older one.
C11_Witness ==
    \E p \in Procs :
        /\ AfterScan(p) /\ HadRecord(p) /\ args[p].force_update
        /\ \E f \in new_files[p] : tree[f] = Watermark(loaded[p], Key(p))
        /\ \E f \in DOMAIN tree : tree[f] < Watermark(loaded[p], Key(p))

(* ---------------------------------------------------------------------- *)
(* C12                                                                     *)
(* ---------------------------------------------------------------------- *)

\* The records a store holds for a device.
RecordsOf(store, connect_key) ==
    IF IsSome(store)
    THEN { i \in 1..Len(Unwrap(store)) : Unwrap(store)[i].connectkey = connect_key }
    ELSE {}

AtMostOnePerDevice(store) ==
    \A k \in ConnectKeys : Cardinality(RecordsOf(store, k)) <= 1

\* C12: with invocations one after another from an absent record file, the
\* record file and every in-memory store hold at most one record per device.
C12_AtMostOneRecordPerDevice ==
    /\ AtMostOnePerDevice(recordFile)
    /\ \A p \in Procs : AtMostOnePerDevice(records[p]) /\ AtMostOnePerDevice(loaded[p])

\* A run has updated the record of its device in a store of two devices.
C12_Witness ==
    \E p \in Procs :
        /\ pc[p] = "done" /\ HadRecord(p) /\ flushes[p] = 1
        /\ Len(Unwrap(recordFile)) = 2
        /\ recordFile # loaded[p]

(* ---------------------------------------------------------------------- *)
(* C13                                                                     *)
(* ---------------------------------------------------------------------- *)

\* hdc could not be spawned for the remount or for a transfer of this run.
SpawnFailed(p) ==
    \/ agentLog[p].remount = "spawnfail"
    \/ \E f \in DOMAIN agentLog[p].sends : agentLog[p].sends[f].status = "spawnfail"

\* C13: once hdc could not be spawned the run has aborted: that command is the
\* last one of the run (no transfer after a failed remount, one failed
\* transfer at most), nothing was written, and the record file is what the
\* run loaded.
C13_SpawnFailureAborts ==
    \A p \in Procs :
        SpawnFailed(p) =>
            /\ pc[p] = "aborted"
            /\ agentLog[p].remount = "spawnfail" => agentLog[p].sends = EmptyMap
            /\ Cardinality({ f \in DOMAIN agentLog[p].sends :
                               agentLog[p].sends[f].status = "spawnfail" }) <= 1
            /\ flushes[p] = 0
            /\ records[p] = loaded[p]
            /\ recordFile = loaded[p]

\* A run aborted on its second transfer, one file sent and one not reached.
C13_Witness ==
    \E p \in Procs :
        /\ pc[p] = "aborted" /\ HadRecord(p)
        /\ \E f \in DOMAIN agentLog[p].sends : agentLog[p].sends[f].status = "ok"
        /\ \E f \in DOMAIN agentLog[p].sends : agentLog[p].sends[f].status = "spawnfail"
        /\ DOMAIN agentLog[p].sends # DOMAIN build_file_map[p]

(* ---------------------------------------------------------------------- *)
(* C14                                                                     *)
(* ---------------------------------------------------------------------- *)

\* C14: with two invocations at once, every write of the record file replaces
\* it by the writer's own store: the watermark the writer computed for its
\* device, and for every other device the watermark the writer loaded,
\* whatever has been written to the file since the writer loaded it.
C14_FlushOverwritesWithLoadedStore ==
    [][ \A p \in Procs :
            flushes'[p] > flushes[p] =>
                /\ recordFile' = records'[p]
                /\ Watermark(recordFile', Key(p)) = new_modified_date[p]
                /\ \A k \in ConnectKeys \ {Key(p)} :
                      Watermark(recordFile', k) = Watermark(loaded[p], k) ]_vars

\* Two invocations for one device loaded the same store before either wrote,
\* both have written, and the file holds the lower of the two watermarks: the
\* higher one, persisted in between, is lost.
C14_Witness ==
    \E p, q \in Procs :
        /\ p # q /\ Key(p) = Key(q)
        /\ pc[p] = "done" /\ pc[q] = "done"
        /\ flushes[p] = 1 /\ flushes[q] = 1
        /\ loaded[p] = loaded[q]
        /\ new_files[p] # {} /\ new_files[q] # {}
        /\ Watermark(loaded[p], Key(p)) < new_modified_date[p]
        /\ new_modified_date[p] < new_modified_date[q]
        /\ Watermark(recordFile, Key(p)) = new_modified_date[p]

(* ---------------------------------------------------------------------- *)
(* C19                                                                     *)
(* ---------------------------------------------------------------------- *)

\* C19: when two invocations at once for two different devices have both
\* ended, the record file holds the record each of them wrote.
C19_BothUpdatesKept ==
    \A p, q \in Procs :
        /\ p # q /\ pc[p] = "done" /\ pc[q] = "done"
        /\ Key(p) # Key(q)
        => \A r \in {p, q} :
              flushes[r] = 1 =>
                  /\ record_entry_exists(recordFile, Key(r))
                  /\ Watermark(recordFile, Key(r)) = new_modified_date[r]

(* ---------------------------------------------------------------------- *)
(* C15                                                                     *)
(* ---------------------------------------------------------------------- *)

\* The send decision of this invocation has been taken.
AfterDecide(p) == pc[p] \notin {"idle", "read", "scan", "decide"}

\* What a line says once blanks and line ends are left out.
IsInk(c) == c \notin {" ", "\n", "\t", "\r"}
Said(line) == SelectSeq(line, IsInk)

\* C15: with a non-empty plan and a prior record, the push flag sends without
\* any prompt, and without it there is exactly one prompt and the run sends
\* if and only if the answer is empty, "y" or "Y"; in every other situation
\* there is no prompt and nothing is sent. hdc is invoked only in a run that
\* decided to send, and a run that decided to send invokes it.
C15_SendDecision ==
    \A p \in Procs :
        /\ ~AfterDecide(p) => prompts[p] = 0 /\ ~send[p] /\ ~AgentInvoked(p)
        /\ AgentInvoked(p) => send[p]
        /\ send[p] /\ pc[p] \in {"send", "update", "done"} => AgentInvoked(p)
        /\ AfterDecide(p) =>
              IF DOMAIN build_file_map[p] # {} /\ HadRecord(p)
              THEN IF args[p].push
                   THEN send[p] /\ prompts[p] = 0 /\ input[p] = None
                   ELSE /\ prompts[p] = 1
                        /\ IsSome(input[p]) =>
                              (send[p] <=> Said(Unwrap(input[p])) \in { <<>>, <<"y">>, <<"Y">> })
              ELSE prompts[p] = 0 /\ ~send[p] /\ ~AgentInvoked(p)

\* The answer " y " has just been read and the run is about to remount.
C15_Witness ==
    \E p \in Procs :
        /\ pc[p] = "remount" /\ ~args[p].push /\ send[p]
        /\ input[p] = Some(<<" ", "y", " ", "\n">>)

(* ---------------------------------------------------------------------- *)
(* C16                                                                     *)
(* ---------------------------------------------------------------------- *)

\* C16: a run that does not send never invokes hdc. A sending run invokes it
\* once for the remount, before any transfer, and then once per plan entry,
\* each to the device path the plan gives it; the record file is written only
\* when the remount and every transfer have returned.
C16_AgentProtocol ==
    \A p \in Procs :
        LET log == agentLog[p]
            remounts == IF log.remount = "none" THEN 0 ELSE 1
        IN /\ ~send[p] => log = NoCalls
           /\ pc[p] = "remount" => log = NoCalls
           /\ log.calls = remounts + Cardinality(DOMAIN log.sends)
           /\ log.sends # EmptyMap => log.remount \in {"ok", "nonzero"}
           /\ \A f \in DOMAIN log.sends :
                 /\ f \in DOMAIN build_file_map[p]
                 /\ log.sends[f].dst = build_file_map[p][f]
           /\ pc[p] = "send" => remounts = 1 /\ Remaining(p) # {}
           /\ send[p] /\ pc[p] \in {"update", "done"} =>
                 /\ remounts = 1
                 /\ DOMAIN log.sends = DOMAIN build_file_map[p]
                 /\ log.calls = 1 + Cardinality(DOMAIN build_file_map[p])
           /\ flushes[p] > 0 => pc[p] = "done"

\* A run has remounted, sent a plan of three entries and written the record.
C16_Witness ==
    \E p \in Procs :
        /\ pc[p] = "done" /\ send[p] /\ flushes[p] = 1
        /\ agentLog[p].calls = 4
        /\ DOMAIN agentLog[p].sends = BuildFiles

(* ---------------------------------------------------------------------- *)
(* C17                                                                     *)
(* ---------------------------------------------------------------------- *)

\* The records of a store, none for an absent one.
Vec(store) == IF IsSome(store) THEN Unwrap(store) ELSE <<>>

\* after is before with one record of connect_key appended, or with the date
\* of the record of connect_key replaced, and nothing else changed.
OneUpsert(before, after, connect_key) ==
    IF record_entry_exists(before, connect_key)
    THEN /\ Len(Vec(after)) = Len(Vec(before))
         /\ \A i \in 1..Len(Vec(before)) :
               /\ Vec(after)[i].connectkey = Vec(before)[i].connectkey
               /\ Vec(before)[i].connectkey # connect_key => Vec(after)[i] = Vec(before)[i]
    ELSE /\ Len(Vec(after)) = Len(Vec(before)) + 1
         /\ SubSeq(Vec(after), 1, Len(Vec(before))) = Vec(before)
         /\ Vec(after)[Len(Vec(after))].connectkey = connect_key

\* C17: in one run the record file is read once, the store is modified at most
\* once, by one append or one date update for the run's device, and the file is
\* written at most once, exactly when the store was modified.
C17_LoadOnceMutateOnceFlushOnce ==
    \A p \in Procs :
        /\ loads[p] = IF AfterLoad(p) THEN 1 ELSE 0
        /\ mutations[p] <= 1
        /\ flushes[p] = mutations[p]
        /\ AfterLoad(p) /\ mutations[p] = 0 => records[p] = loaded[p]
        /\ mutations[p] = 1 =>
              /\ OneUpsert(loaded[p], records[p], Key(p))
              /\ Watermark(records[p], Key(p)) = new_modified_date[p]

\* A run has updated the date of its device's record and written the file.
C17_Witness ==
    \E p \in Procs :
        /\ pc[p] = "done" /\ HadRecord(p)
        /\ loads[p] = 1 /\ mutations[p] = 1 /\ flushes[p] = 1
        /\ records[p] # loaded[p]

(* ---------------------------------------------------------------------- *)
(* C18                                                                     *)
(* ---------------------------------------------------------------------- *)

\* C18: with invocations one after another, the record file is at any moment
\* of a run what the run loaded, or that with the run's device upserted: the
\* records of the other devices keep their dates and their order, an existing
\* record of the device keeps its place and a new one comes last.
C18_OtherDevicesUntouched ==
    \A p \in Procs :
        AfterLoad(p) =>
            \/ recordFile = loaded[p]
            \/ /\ IsSome(recordFile)
               /\ OneUpsert(loaded[p], recordFile, Key(p))

\* A first run for a device has appended its record after the record of the
\* other device.
C18_Witness ==
    \E p \in Procs :
        /\ pc[p] = "done" /\ ~HadRecord(p)
        /\ Len(Vec(loaded[p])) = 1
        /\ Len(Vec(recordFile)) = 2
        /\ Vec(recordFile)[1] = Vec(loaded[p])[1]
        /\ Vec(recordFile)[2].connectkey = Key(p)

====
